---- MODULE Spec2Model ----
(***************************************************************************)
(* The rule-based expert system of ExpertSystem.ts: a fact store, forward  *)
(* chaining on addFact, cascading retraction on deleteFact and the         *)
(* backward query planner updateVariablesToQuery.                          *)
(*                                                                         *)
(* Objects compared by identity in the code are given identities here: a   *)
(* Variable is its name, a PossibleValue is the pair <<variable, name>>    *)
(* (JSON decoding gives every variable its own value objects).             *)
(***************************************************************************)
EXTENDS Naturals, Sequences, FiniteSets

VARIABLES
    cfg,                  \* which configuration the engine was constructed with
    facts,                \* this.facts
    variablesToQuery,     \* this.variablesToQuery
    lastCall,             \* the call made last and how it ended
    prevFacts,            \* this.facts when that call was made
    prevVariablesToQuery, \* this.variablesToQuery when that call was made
    prevCall,             \* the call before it
    retraction            \* the _deleteFact calls of a deleteFact under way

vars ==
    <<cfg, facts, variablesToQuery, lastCall, prevFacts, prevVariablesToQuery,
      prevCall, retraction>>

----------------------------------------------------------------------------
(* Data model                                                              *)

\* enum FactType, plus the absent `type?` of a fact restored from a rule
entered == "entered"
dedicated == "dedicated"
undefinedType == "undefined"

\* enum VariableType
deductible == "deductible"
queryable == "queryable"
both == "both"

\* an omitted optional `value?` argument
NoValue == <<>>

\* interface Fact
Fact(variable, value, type) ==
    [variable |-> variable, value |-> value, type |-> type]

\* restoreFact: a rule's reason or result, resolved by names, with no type
restoreFact(variableName, valueName) ==
    Fact(variableName, <<variableName, valueName>>, undefinedType)

\* interface Rule
Rule(reasons, result) == [reasons |-> reasons, result |-> result]

\* interface Variable, as decoded from the configuration
Variable(name, type, valueNames) ==
    [name |-> name, type |-> type,
     possibleValues |-> [i \in 1..Len(valueNames) |-> <<name, valueNames[i]>>]]

YesNo == <<"yes", "no">>

(* The configurations the engine is constructed with.                       *)
\* the reference scenario: A and B asked, T derived by one rule
ScenarioConfig ==
    [variables |-> <<Variable("A", queryable, YesNo),
                     Variable("B", queryable, YesNo),
                     Variable("T", deductible, YesNo)>>,
     rules |-> <<Rule(<<restoreFact("A", "yes"), restoreFact("B", "yes")>>,
                      restoreFact("T", "yes"))>>,
     target |-> "T"]

\* a variable that is both asked and derived, on the way to the target
BothConfig ==
    [variables |-> <<Variable("A", queryable, YesNo),
                     Variable("B", both, YesNo),
                     Variable("T", deductible, YesNo)>>,
     rules |-> <<Rule(<<restoreFact("A", "yes")>>, restoreFact("B", "yes")),
                 Rule(<<restoreFact("B", "yes")>>, restoreFact("T", "yes"))>>,
     target |-> "T"]

\* one conclusion reached by two rules, then chained to the target
TwoWaysConfig ==
    [variables |-> <<Variable("A", queryable, YesNo),
                     Variable("D", queryable, YesNo),
                     Variable("C", deductible, YesNo),
                     Variable("T", deductible, YesNo)>>,
     rules |-> <<Rule(<<restoreFact("A", "yes")>>, restoreFact("C", "yes")),
                 Rule(<<restoreFact("D", "yes")>>, restoreFact("C", "yes")),
                 Rule(<<restoreFact("C", "yes")>>, restoreFact("T", "yes"))>>,
     target |-> "T"]

\* alternative rules over the same asked variables
AlternativesConfig ==
    [variables |-> <<Variable("A", queryable, YesNo),
                     Variable("B", queryable, YesNo),
                     Variable("T", deductible, YesNo)>>,
     rules |-> <<Rule(<<restoreFact("A", "yes"), restoreFact("B", "yes")>>,
                      restoreFact("T", "yes")),
                 Rule(<<restoreFact("A", "no"), restoreFact("B", "yes")>>,
                      restoreFact("T", "no"))>>,
     target |-> "T"]

\* a rule to the target that skips the variable both asked and derived
ShortcutConfig ==
    [variables |-> <<Variable("A", queryable, YesNo),
                     Variable("B", both, YesNo),
                     Variable("T", deductible, YesNo)>>,
     rules |-> <<Rule(<<restoreFact("A", "yes")>>, restoreFact("T", "yes")),
                 Rule(<<restoreFact("A", "yes")>>, restoreFact("B", "yes")),
                 Rule(<<restoreFact("B", "yes")>>, restoreFact("T", "yes"))>>,
     target |-> "T"]

\* two rules concluding different values of the target
ConflictConfig ==
    [variables |-> <<Variable("A", queryable, YesNo),
                     Variable("B", queryable, YesNo),
                     Variable("T", both, YesNo)>>,
     rules |-> <<Rule(<<restoreFact("A", "yes")>>, restoreFact("T", "yes")),
                 Rule(<<restoreFact("B", "yes")>>, restoreFact("T", "no"))>>,
     target |-> "T"]

\* a rule that needs the value of H that another rule of the same reason
\* rules out, H being both asked and derived
OverrideConfig ==
    [variables |-> <<Variable("A", queryable, YesNo),
                     Variable("H", both, YesNo),
                     Variable("T", deductible, YesNo)>>,
     rules |-> <<Rule(<<restoreFact("A", "yes")>>, restoreFact("H", "no")),
                 Rule(<<restoreFact("A", "yes"), restoreFact("H", "yes")>>,
                      restoreFact("T", "yes"))>>,
     target |-> "T"]

\* a dependency cycle: X derived from Y and Y from X, the target from X
CyclicConfig ==
    [variables |-> <<Variable("X", both, YesNo),
                     Variable("Y", deductible, YesNo),
                     Variable("T", deductible, YesNo)>>,
     rules |-> <<Rule(<<restoreFact("Y", "yes")>>, restoreFact("X", "yes")),
                 Rule(<<restoreFact("X", "yes")>>, restoreFact("Y", "yes")),
                 Rule(<<restoreFact("X", "yes")>>, restoreFact("T", "yes"))>>,
     target |-> "T"]

\* a rule of two reasons and a second rule for the same result
FallbackConfig ==
    [variables |-> <<Variable("A", queryable, YesNo),
                     Variable("B", queryable, YesNo),
                     Variable("D", queryable, YesNo),
                     Variable("T", deductible, YesNo)>>,
     rules |-> <<Rule(<<restoreFact("A", "yes"), restoreFact("B", "yes")>>,
                      restoreFact("T", "yes")),
                 Rule(<<restoreFact("D", "yes")>>, restoreFact("T", "yes"))>>,
     target |-> "T"]

Configs ==
    <<ScenarioConfig, BothConfig, ShortcutConfig, TwoWaysConfig,
      AlternativesConfig, ConflictConfig, OverrideConfig, CyclicConfig,
      FallbackConfig>>

\* the constructor's readonly fields
variables == Configs[cfg].variables
rules == Configs[cfg].rules
target == Configs[cfg].target

VariableNames == {variables[i].name : i \in 1..Len(variables)}
VariableOf(name) ==
    variables[CHOOSE i \in 1..Len(variables) : variables[i].name = name]
ValuesOf(name) ==
    LET v == VariableOf(name)
    IN  {v.possibleValues[i] : i \in 1..Len(v.possibleValues)}

----------------------------------------------------------------------------
(* Array helpers                                                           *)

Range(s) == {s[i] : i \in 1..Len(s)}

RemoveAt(s, i) == SubSeq(s, 1, i - 1) \o SubSeq(s, i + 1, Len(s))

\* Array.prototype.findIndex on the variable of a fact; 0 stands for -1
IndexOfVariable(fs, variable) ==
    IF \E i \in 1..Len(fs) : fs[i].variable = variable
    THEN CHOOSE i \in 1..Len(fs) :
            /\ fs[i].variable = variable
            /\ \A j \in 1..(i - 1) : fs[j].variable # variable
    ELSE 0

HasFact(fs, variable) == IndexOfVariable(fs, variable) # 0

\* this.facts.find(x => x.variable === variable); only used under HasFact
FactOf(fs, variable) == fs[IndexOfVariable(fs, variable)]

\* a push that does not look for the value in the array
pushAlways(value, array) == Append(array, value)

\* pushIfNotExist with the default comparer
pushIfNotExist(value, array) ==
    IF \E i \in 1..Len(array) : array[i] = value
    THEN array
    ELSE Append(array, value)

\* replaceOrAdd with the comparer (x, y) => x.variable === y.variable
replaceOrAdd(value, array) ==
    LET existed == IndexOfVariable(array, value.variable)
    IN  IF existed = 0
        THEN Append(array, value)
        ELSE [array EXCEPT ![existed] = value]

----------------------------------------------------------------------------
(* ExpertSystem                                                            *)

\* get targetValue(): the known value of the target, NoValue for undefined
targetValue(fs) ==
    IF HasFact(fs, target) THEN FactOf(fs, target).value ELSE NoValue

\* the test of tryApplyRule: every reason is a known fact (variable, value)
ReasonsHold(fs, rule) ==
    \A k \in 1..Len(rule.reasons) :
        \E i \in 1..Len(fs) :
            /\ fs[i].variable = rule.reasons[k].variable
            /\ fs[i].value = rule.reasons[k].value

\* a rule applied as soon as one of its reasons is a known fact
tryApplyRuleSome(fs, rule) ==
    IF \E k \in 1..Len(rule.reasons) :
          \E i \in 1..Len(fs) :
              /\ fs[i].variable = rule.reasons[k].variable
              /\ fs[i].value = rule.reasons[k].value
    THEN <<rule.result>>
    ELSE <<>>

\* tryApplyRule: the rule's result in a list, the empty list for null
tryApplyRule(fs, rule) ==
    IF ReasonsHold(fs, rule) THEN <<rule.result>> ELSE <<>>

\* _deleteFact's find: the first fact of the variable (with the value, when
\* one is given); 0 when there is none
FindToDelete(fs, variable, value) ==
    IF \E i \in 1..Len(fs) :
          fs[i].variable = variable /\ (value = NoValue \/ fs[i].value = value)
    THEN CHOOSE i \in 1..Len(fs) :
            /\ fs[i].variable = variable
            /\ (value = NoValue \/ fs[i].value = value)
            /\ \A j \in 1..(i - 1) :
                  ~(fs[j].variable = variable
                    /\ (value = NoValue \/ fs[j].value = value))
    ELSE 0

\* the rules having the removed fact (variable and value) among their reasons
RulesUsing(fact) ==
    SelectSeq(rules, LAMBDA x :
        \E k \in 1..Len(x.reasons) :
            /\ x.reasons[k].variable = fact.variable
            /\ x.reasons[k].value = fact.value)

RECURSIVE _deleteFact(_, _, _, _)
RECURSIVE DeleteResults(_, _, _)

\* the loop of _deleteFact over the rules that used the removed fact
DeleteResults(fs, using, k) ==
    IF k > Len(using)
    THEN fs
    ELSE DeleteResults(
            _deleteFact(fs, using[k].result.variable, using[k].result.value,
                        TRUE),
            using, k + 1)

\* a retraction that removes the fact and does not cascade
_deleteFactNoCascade(fs, variable, value, onlyDeducted) ==
    LET i == FindToDelete(fs, variable, value)
    IN  IF i = 0
        THEN fs
        ELSE IF fs[i].type = entered /\ onlyDeducted
        THEN fs
        ELSE RemoveAt(fs, i)

\* a retraction whose cascade does not spare the entered facts
_deleteFactAnyType(fs, variable, value, onlyDeducted) ==
    LET i == FindToDelete(fs, variable, value)
    IN  IF i = 0
        THEN fs
        ELSE DeleteResults(RemoveAt(fs, i), RulesUsing(fs[i]), 1)

_deleteFact(fs, variable, value, onlyDeducted) ==
    LET i == FindToDelete(fs, variable, value)
    IN  IF i = 0
        THEN fs
        ELSE IF fs[i].type = entered /\ onlyDeducted
        THEN fs
        ELSE DeleteResults(RemoveAt(fs, i), RulesUsing(fs[i]), 1)

\* addFact's condition for a rule's conclusion, against the stored facts
canBeAdded(fs, newFact) ==
    \A i \in 1..Len(fs) :
        \/ fs[i].variable # newFact.variable
        \/ fs[i].value = newFact.value
        \/ fs[i].type = entered

\* a store step that pushes the fact without removing the stored one
StoreFactPush(fs, fact) == Append(fs, fact)

\* addFact, lines 99-100: the fact replaces what is stored for its variable
StoreFact(fs, fact) ==
    replaceOrAdd(fact, _deleteFact(fs, fact.variable, NoValue, FALSE))

RECURSIVE ScanRules(_, _, _, _)

\* an inner loop whose check for a pending fact of the same variable leaves
\* out the fact addFact was called with
ScanRulesSeedUnchecked(fs, newFacts, fact, r) ==
    IF r > Len(rules)
    THEN newFacts
    ELSE LET rule == rules[r]
             touched == \E k \in 1..Len(rule.reasons) :
                            rule.reasons[k].value = fact.value
             applied == tryApplyRule(fs, rule)
             accepted ==
                /\ touched
                /\ applied # <<>>
                /\ canBeAdded(fs, applied[1])
                /\ ~\E i \in 2..Len(newFacts) :
                       newFacts[i].variable = applied[1].variable
         IN  ScanRules(fs,
                       IF accepted THEN Append(newFacts, applied[1])
                       ELSE newFacts,
                       fact, r + 1)

\* addFact's inner loop over the rules for the fact just stored: newFacts
\* with the accepted conclusions pushed
ScanRules(fs, newFacts, fact, r) ==
    IF r > Len(rules)
    THEN newFacts
    ELSE LET rule == rules[r]
             touched == \E k \in 1..Len(rule.reasons) :
                            rule.reasons[k].value = fact.value
             applied == tryApplyRule(fs, rule)
             accepted ==
                /\ touched
                /\ applied # <<>>
                /\ canBeAdded(fs, applied[1])
                /\ ~\E i \in 1..Len(newFacts) :
                       newFacts[i].variable = applied[1].variable
         IN  ScanRules(fs,
                       IF accepted THEN Append(newFacts, applied[1])
                       ELSE newFacts,
                       fact, r + 1)

RECURSIVE Rederive(_, _, _)

\* addFact's outer loop over newFacts, which grows while it is iterated:
\* the store and newFacts when the loop has passed the last element
Rederive(fs, newFacts, n) ==
    IF n > Len(newFacts)
    THEN [facts |-> fs, newFacts |-> newFacts]
    ELSE LET stored == StoreFact(fs, newFacts[n])
         IN  Rederive(stored, ScanRules(stored, newFacts, newFacts[n], 1),
                      n + 1)

\* the fact store after addFact(fact)
addFact(fs, fact) == Rederive(fs, <<fact>>, 1).facts

\* the fact store after deleteFact(variable)
deleteFact(fs, variable) == _deleteFact(fs, variable, NoValue, FALSE)

----------------------------------------------------------------------------
(* The query planner                                                       *)

\* a nullable list, Variable[] | null, when the call returns
Null == [returns |-> TRUE, null |-> TRUE, list |-> <<>>]
Some(list) == [returns |-> TRUE, null |-> FALSE, list |-> list]

\* a call that recurses into a call with its own arguments: the recursion
\* repeats without end and no value is returned (the runtime gives up with
\* a RangeError when the call stack is full)
Unbounded == [returns |-> FALSE, null |-> FALSE, list |-> <<>>]

\* the rules by which (variable, value) is derived; every rule of the
\* variable when no value is asked for
RulesFor(variable, value) ==
    SelectSeq(rules, LAMBDA x :
        /\ x.result.variable = variable
        /\ (value = NoValue \/ x.result.value = value))

RECURSIVE planFrom(_, _, _, _)
RECURSIVE VariablesByRule(_, _, _, _, _)
RECURSIVE VariablesOfRules(_, _, _, _, _)

\* the inner loop over a rule's reasons that forgets to empty the list when
\* a reason resolves to null
VariablesByRuleNoReset(fs, rule, k, variablesByRule, running) ==
    IF k > Len(rule.reasons)
    THEN Some(variablesByRule)
    ELSE LET toQuery == planFrom(fs, rule.reasons[k].variable,
                                 rule.reasons[k].value, running)
         IN  IF ~toQuery.returns
             THEN Unbounded
             ELSE IF toQuery.null
             THEN Some(variablesByRule)
             ELSE VariablesByRule(fs, rule, k + 1,
                                  variablesByRule \o toQuery.list, running)

\* the inner loop over a rule's reasons: the empty list as soon as a reason
\* resolves to null (the break), else the reasons' lists concatenated;
\* running holds the calls of the planner that have not returned yet
VariablesByRule(fs, rule, k, variablesByRule, running) ==
    IF k > Len(rule.reasons)
    THEN Some(variablesByRule)
    ELSE LET toQuery == planFrom(fs, rule.reasons[k].variable,
                                 rule.reasons[k].value, running)
         IN  IF ~toQuery.returns
             THEN Unbounded
             ELSE IF toQuery.null
             THEN Some(<<>>)
             ELSE VariablesByRule(fs, rule, k + 1,
                                  variablesByRule \o toQuery.list, running)

\* the outer loop over the candidate rules
VariablesOfRules(fs, candidates, r, found, running) ==
    IF r > Len(candidates)
    THEN Some(found)
    ELSE LET byRule == VariablesByRule(fs, candidates[r], 1, <<>>, running)
         IN  IF ~byRule.returns
             THEN Unbounded
             ELSE VariablesOfRules(fs, candidates, r + 1,
                                   found \o byRule.list, running)

\* a planner with a guard: a call with the arguments of a call that has not
\* returned gives null
planFromGuarded(fs, variable, value, running) ==
    IF HasFact(fs, variable)
    THEN IF value = NoValue \/ FactOf(fs, variable).value = value
         THEN Some(<<>>)
         ELSE Null
    ELSE IF VariableOf(variable).type = queryable
    THEN Some(<<variable>>)
    ELSE LET candidates == RulesFor(variable, value)
         IN  IF Len(candidates) = 0
             THEN IF VariableOf(variable).type = both
                  THEN Some(<<variable>>)
                  ELSE Null
             ELSE IF <<variable, value>> \in running
             THEN Null
             ELSE LET found == VariablesOfRules(fs, candidates, 1, <<>>,
                                   running \cup {<<variable, value>>})
                  IN  IF ~found.returns
                      THEN Unbounded
                      ELSE IF Len(found.list) > 0
                      THEN Some(found.list)
                      ELSE Null

\* updateVariablesToQuery(variable, value) with a variable given, called
\* while the calls in running have not returned
planFrom(fs, variable, value, running) ==
    IF HasFact(fs, variable)
    THEN IF value = NoValue \/ FactOf(fs, variable).value = value
         THEN Some(<<>>)
         ELSE Null
    ELSE IF VariableOf(variable).type = queryable
    THEN Some(<<variable>>)
    ELSE LET candidates == RulesFor(variable, value)
         IN  IF Len(candidates) = 0
             THEN IF VariableOf(variable).type = both
                  THEN Some(<<variable>>)
                  ELSE Null
             ELSE IF <<variable, value>> \in running
             THEN Unbounded
             ELSE LET found == VariablesOfRules(fs, candidates, 1, <<>>,
                                   running \cup {<<variable, value>>})
                  IN  IF ~found.returns
                      THEN Unbounded
                      ELSE IF Len(found.list) > 0
                      THEN Some(found.list)
                      ELSE Null

\* a planner that takes a known variable as resolved whatever value is asked
planAnyKnownValue(fs, variable, value) ==
    IF HasFact(fs, variable)
    THEN Some(<<>>)
    ELSE planFrom(fs, variable, value, {})

\* updateVariablesToQuery(variable, value) as called from outside
plan(fs, variable, value) == planFrom(fs, variable, value, {})

RECURSIVE PushAll(_, _, _)

\* the loop of pushIfNotExist over the planned variables
PushAll(list, k, array) ==
    IF k > Len(list)
    THEN array
    ELSE PushAll(list, k + 1, pushIfNotExist(list[k], array))

\* a refresh that adds the planned variables to the list it starts from
updateVariablesToQueryKeepOld(fs, old) ==
    LET found == plan(fs, target, NoValue)
    IN  IF ~found.returns
        THEN [variablesToQuery |-> old, ret |-> "RangeError"]
        ELSE IF found.null
        THEN [variablesToQuery |-> old, ret |-> "null"]
        ELSE [variablesToQuery |-> old \o found.list, ret |-> "[]"]

\* updateVariablesToQuery() without arguments: the new variablesToQuery and
\* the value returned; old is the list the call starts from. The list is
\* emptied before the planner is entered.
updateVariablesToQuery(fs, old) ==
    LET found == plan(fs, target, NoValue)
    IN  IF ~found.returns
        THEN [variablesToQuery |-> <<>>, ret |-> "RangeError"]
        ELSE IF found.null
        THEN [variablesToQuery |-> <<>>, ret |-> "null"]
        ELSE [variablesToQuery |-> PushAll(found.list, 1, <<>>),
              ret |-> "[]"]

\* no deleteFact is under way: no _deleteFact call is pending, none was
\* begun, none went on past its guards, no fact was removed
NoRetraction == [pending |-> <<>>, calls |-> 0, continued |-> 0, removed |-> 0]

\* how addFact and deleteFact end: they return nothing, unless the refresh
\* they finish with does not return
EndOf(refresh) == IF refresh.ret = "RangeError" THEN "RangeError" ELSE "void"

----------------------------------------------------------------------------
(* The calls made on the engine                                            *)

\* what the last call was: its name, arguments and returned value
Call(op, variable, value, ret) ==
    [op |-> op, variable |-> variable, value |-> value, ret |-> ret]

\* new ExpertSystem(variables, rules, target)
Init ==
    /\ cfg \in 1..Len(Configs)
    /\ facts = <<>>
    /\ variablesToQuery = <<>>
    /\ lastCall = Call("new", "", NoValue, "void")
    /\ prevFacts = <<>>
    /\ prevVariablesToQuery = <<>>
    /\ prevCall = Call("new", "", NoValue, "void")
    /\ retraction = NoRetraction

\* an addFact that leaves the list of variables to ask as it was
AddFactNoRefresh ==
    \E variable \in VariableNames :
        \E value \in ValuesOf(variable) :
            /\ lastCall.ret # "running"
            /\ facts' = addFact(facts, Fact(variable, value, entered))
            /\ variablesToQuery' = variablesToQuery
            /\ lastCall' = Call("addFact", variable, value, "void")
            /\ prevFacts' = facts
            /\ prevVariablesToQuery' = variablesToQuery
            /\ prevCall' = lastCall
            /\ UNCHANGED <<cfg, retraction>>

\* system.addFact({variable, value, type: FactType.entered}), called when no
\* call is under way
AddFact ==
    \E variable \in VariableNames :
        \E value \in ValuesOf(variable) :
            LET stored == addFact(facts, Fact(variable, value, entered))
                refresh == updateVariablesToQuery(stored, variablesToQuery)
            IN  /\ lastCall.ret # "running"
                /\ facts' = stored
                /\ variablesToQuery' = refresh.variablesToQuery
                /\ lastCall' = Call("addFact", variable, value, EndOf(refresh))
                /\ prevFacts' = facts
                /\ prevVariablesToQuery' = variablesToQuery
                /\ prevCall' = lastCall
                /\ UNCHANGED <<cfg, retraction>>

\* system.deleteFact(variable)
DeleteFact ==
    \E variable \in VariableNames :
        LET stored == deleteFact(facts, variable)
            refresh == updateVariablesToQuery(stored, variablesToQuery)
        IN  /\ facts' = stored
            /\ variablesToQuery' = refresh.variablesToQuery
            /\ lastCall' = Call("deleteFact", variable, NoValue, EndOf(refresh))
            /\ prevFacts' = facts
            /\ prevVariablesToQuery' = variablesToQuery
            /\ prevCall' = lastCall
            /\ UNCHANGED <<cfg, retraction>>

\* system.updateVariablesToQuery()
UpdateVariablesToQuery ==
    LET done == updateVariablesToQuery(facts, variablesToQuery)
    IN  /\ variablesToQuery' = done.variablesToQuery
        /\ lastCall' = Call("updateVariablesToQuery", "", NoValue, done.ret)
        /\ prevFacts' = facts
        /\ prevVariablesToQuery' = variablesToQuery
        /\ prevCall' = lastCall
        /\ UNCHANGED <<cfg, facts, retraction>>

Next == AddFact \/ DeleteFact \/ UpdateVariablesToQuery

Spec == Init /\ [][Next]_vars

----------------------------------------------------------------------------
(* Properties of the fact store and of the chaining engine                 *)

\* the stored fact of the variable with that value, whatever its type
Holds(fs, variable, value) ==
    \E i \in 1..Len(fs) : fs[i].variable = variable /\ fs[i].value = value

\* C1: after any sequence of addFact and deleteFact calls the fact store
\* holds at most one fact per variable.
C1_AtMostOneFactPerVariable ==
    \A i, j \in 1..Len(facts) :
        facts[i].variable = facts[j].variable => i = j

\* an addFact that replaced the fact of its variable by another value,
\* with other facts in the store
C1_Witness ==
    /\ lastCall.op = "addFact"
    /\ HasFact(prevFacts, lastCall.variable)
    /\ FactOf(prevFacts, lastCall.variable).value # lastCall.value
    /\ Holds(facts, lastCall.variable, lastCall.value)
    /\ Len(facts) >= 2

\* C2: right after addFact returns, every rule whose reasons are all stored
\* has its result stored, unless the result's variable holds an entered
\* fact with a different value.
C2_ForwardClosure ==
    lastCall.op = "addFact" =>
        \A r \in 1..Len(rules) :
            ReasonsHold(facts, rules[r]) =>
                \/ Holds(facts, rules[r].result.variable,
                         rules[r].result.value)
                \/ /\ HasFact(facts, rules[r].result.variable)
                   /\ FactOf(facts, rules[r].result.variable).type = entered
                   /\ FactOf(facts, rules[r].result.variable).value
                          # rules[r].result.value

\* C3: an entered fact of a variable v is still stored, unchanged, after
\* addFact(g) for a fact g of another variable.
C3_EnteredNotOverwritten ==
    lastCall.op = "addFact" =>
        \A i \in 1..Len(prevFacts) :
            (prevFacts[i].type = entered
             /\ prevFacts[i].variable # lastCall.variable)
                => prevFacts[i] \in Range(facts)

\* the stored facts, not entered, that some rule concludes from a fact of S
Consequences(fs, S) ==
    {fs[i] : i \in {j \in 1..Len(fs) :
        /\ fs[j].type # entered
        /\ \E r \in 1..Len(rules) :
              /\ rules[r].result.variable = fs[j].variable
              /\ rules[r].result.value = fs[j].value
              /\ \E k \in 1..Len(rules[r].reasons) :
                    \E g \in S :
                        /\ rules[r].reasons[k].variable = g.variable
                        /\ rules[r].reasons[k].value = g.value}}

RECURSIVE DerivedFrom(_, _)

\* S with every stored fact transitively derived from it
DerivedFrom(fs, S) ==
    LET more == S \cup Consequences(fs, S)
    IN  IF more = S THEN S ELSE DerivedFrom(fs, more)

\* what deleteFact(variable) has to remove from fs
Retracted(fs, variable) ==
    IF HasFact(fs, variable)
    THEN DerivedFrom(fs, {FactOf(fs, variable)})
    ELSE {}

\* C4: after deleteFact(v) returns, v has no fact and no fact transitively
\* derived, through rules having a removed fact as a reason, from v's fact
\* is stored any more; entered facts are not counted as derived.
C4_CascadingRetraction ==
    lastCall.op = "deleteFact" =>
        /\ ~HasFact(facts, lastCall.variable)
        /\ \A f \in Retracted(prevFacts, lastCall.variable) :
              f \notin Range(facts)

\* a retraction that removed a chain of two derived facts
C4_Witness ==
    /\ lastCall.op = "deleteFact"
    /\ Cardinality(Retracted(prevFacts, lastCall.variable)) >= 3
    /\ Len(facts) = Len(prevFacts) - 3

\* C5: deleteFact(v) leaves every entered fact of another variable stored
\* and unchanged: an entered fact that a retraction removes is v's own.
C5_EnteredSurviveCascade ==
    lastCall.op = "deleteFact" =>
        \A i \in 1..Len(prevFacts) :
            (prevFacts[i].type = entered
             /\ prevFacts[i].variable # lastCall.variable)
                => prevFacts[i] \in Range(facts)

\* a retraction whose cascade reached an entered fact, the result of a rule
\* that used the removed fact, and left it
C5_Witness ==
    /\ lastCall.op = "deleteFact"
    /\ HasFact(prevFacts, lastCall.variable)
    /\ \E r \in 1..Len(rules) :
          /\ \E k \in 1..Len(rules[r].reasons) :
                /\ rules[r].reasons[k].variable = lastCall.variable
                /\ rules[r].reasons[k].value
                      = FactOf(prevFacts, lastCall.variable).value
          /\ rules[r].result.variable # lastCall.variable
          /\ Fact(rules[r].result.variable, rules[r].result.value, entered)
                \in Range(prevFacts)
          /\ Fact(rules[r].result.variable, rules[r].result.value, entered)
                \in Range(facts)

----------------------------------------------------------------------------
(* Properties of the query planner                                         *)

\* the variables a user can answer: asked only, or both asked and derived
Askable(variable) == VariableOf(variable).type \in {queryable, both}

RECURSIVE CanDetermine(_)

\* some sequence of further answers, to askable variables with no fact yet,
\* leads to a store where the target has a fact
CanDetermine(fs) ==
    \/ HasFact(fs, target)
    \/ \E variable \in {v \in VariableNames : Askable(v) /\ ~HasFact(fs, v)} :
          \E value \in ValuesOf(variable) :
              CanDetermine(addFact(fs, Fact(variable, value, entered)))

\* the variables the reasons of the rules for a variable are about
ReasonVariables(variable) ==
    UNION {{rule.reasons[k].variable : k \in DOMAIN rule.reasons} :
              rule \in {x \in Range(rules) : x.result.variable = variable}}

RECURSIVE DependsOn(_)

\* the variables reached from those of S through the rules, backwards
DependsOn(S) ==
    LET more == S \cup UNION {ReasonVariables(variable) : variable \in S}
    IN  IF more = S THEN S ELSE DependsOn(more)

\* no variable depends on itself through the rules
AcyclicRules ==
    \A variable \in VariableNames :
        variable \notin DependsOn(ReasonVariables(variable))

\* C6: on an acyclic rule graph, in every reachable state plan(target) is
\* null if and only if no sequence of further answers to askable variables
\* gives the target a fact.
C6_PlannerSound ==
    AcyclicRules =>
        (plan(facts, target, NoValue).null <=> ~CanDetermine(facts))

\* C7: the reference scenario, each step taken from the state the step
\* before it leaves: from the empty store the plan is <<A, B>>; addFact(A=yes)
\* gives the facts {A=yes} and the plan <<B>>; addFact(B=yes) gives
\* {A=yes, B=yes, T=yes}, targetValue yes and the empty plan; deleteFact(A)
\* gives {B=yes} and the plan <<A>>.
C7_ReferenceScenario ==
    LET Ayes == Fact("A", <<"A", "yes">>, entered)
        Byes == Fact("B", <<"B", "yes">>, entered)
        Tyes == Fact("T", <<"T", "yes">>, undefinedType)
    IN  Configs[cfg] = ScenarioConfig =>
          /\ facts = <<>> =>
                /\ plan(facts, "T", NoValue) = Some(<<"A", "B">>)
                /\ lastCall.op # "new" => variablesToQuery = <<"A", "B">>
          /\ (lastCall = Call("addFact", "A", <<"A", "yes">>, "void")
              /\ prevFacts = <<>>) =>
                /\ facts = <<Ayes>>
                /\ plan(facts, "T", NoValue) = Some(<<"B">>)
                /\ variablesToQuery = <<"B">>
          /\ (lastCall = Call("addFact", "B", <<"B", "yes">>, "void")
              /\ prevFacts = <<Ayes>>) =>
                /\ facts = <<Ayes, Byes, Tyes>>
                /\ targetValue(facts) = <<"T", "yes">>
                /\ plan(facts, "T", NoValue) = Some(<<>>)
                /\ variablesToQuery = <<>>
          /\ (lastCall = Call("deleteFact", "A", NoValue, "void")
              /\ prevFacts = <<Ayes, Byes, Tyes>>) =>
                /\ facts = <<Byes>>
                /\ plan(facts, "T", NoValue) = Some(<<"A">>)
                /\ variablesToQuery = <<"A">>

\* the end of the scenario: deleteFact(A) after both answers
C7_Witness ==
    /\ Configs[cfg] = ScenarioConfig
    /\ lastCall = Call("deleteFact", "A", NoValue, "void")
    /\ prevFacts = <<Fact("A", <<"A", "yes">>, entered),
                     Fact("B", <<"B", "yes">>, entered),
                     Fact("T", <<"T", "yes">>, undefinedType)>>
    /\ facts = <<Fact("B", <<"B", "yes">>, entered)>>

----------------------------------------------------------------------------
(* Properties of two calls in a row                                        *)

\* what the store holds for the variable: its fact in a list, or nothing
Content(fs, variable) ==
    IF HasFact(fs, variable) THEN <<FactOf(fs, variable)>> ELSE <<>>

\* C8: when f.variable has no fact, addFact(f) followed at once by
\* deleteFact(f.variable) gives back the content the store had before the
\* addFact, for f.variable and for every variable whose fact the addFact
\* derived from f (the variables whose content the addFact changed).
C8_RoundTrip ==
    [][(/\ lastCall.op = "addFact"
        /\ ~HasFact(prevFacts, lastCall.variable)
        /\ lastCall'.op = "deleteFact"
        /\ lastCall'.variable = lastCall.variable)
       => \A w \in VariableNames :
             (w = lastCall.variable
              \/ Content(facts, w) # Content(prevFacts, w))
                => Content(facts', w) = Content(prevFacts, w)]_vars

\* C9: updateVariablesToQuery() called twice in a row returns the same value
\* and gives the same variablesToQuery both times, and leaves the fact
\* store as it was.
C9_RefreshIdempotent ==
    (lastCall.op = "updateVariablesToQuery"
     /\ prevCall.op = "updateVariablesToQuery")
        => /\ lastCall.ret = prevCall.ret
           /\ variablesToQuery = prevVariablesToQuery
           /\ facts = prevFacts

\* a second refresh in a row, with facts stored and variables left to ask
C9_Witness ==
    /\ lastCall.op = "updateVariablesToQuery"
    /\ prevCall.op = "updateVariablesToQuery"
    /\ lastCall.ret = "[]"
    /\ facts # <<>>
    /\ Len(variablesToQuery) >= 1

\* C10: after addFact or deleteFact, variablesToQuery is empty whenever the
\* target has a fact; and plan(variable, value) for a variable that has a
\* fact is the empty list when no value is asked or the known value is
\* asked, and null when another value is asked.
C10_KnownVariablePlan ==
    /\ (lastCall.op \in {"addFact", "deleteFact"}
        /\ targetValue(facts) # NoValue) => variablesToQuery = <<>>
    /\ \A variable \in VariableNames :
          HasFact(facts, variable) =>
              /\ plan(facts, variable, NoValue) = Some(<<>>)
              /\ \A value \in ValuesOf(variable) :
                    plan(facts, variable, value) =
                        IF value = FactOf(facts, variable).value
                        THEN Some(<<>>)
                        ELSE Null

\* an addFact that gave the target its value, from a state with a plan
C10_Witness ==
    /\ lastCall.op = "addFact"
    /\ lastCall.variable # target
    /\ targetValue(facts) # NoValue
    /\ ~HasFact(prevFacts, target)
    /\ variablesToQuery = <<>>

----------------------------------------------------------------------------
(* Properties of the list of variables to ask and of the planner           *)

RECURSIVE FirstOccurrences(_, _)

\* the elements of list from position i on that do not occur earlier in list
FirstOccurrences(list, i) ==
    IF i > Len(list)
    THEN <<>>
    ELSE (IF \E j \in 1..(i - 1) : list[j] = list[i]
          THEN <<>>
          ELSE <<list[i]>>) \o FirstOccurrences(list, i + 1)

\* C11: after every addFact and deleteFact that returns, variablesToQuery is
\* the plan for the target on the store the call leaves, each variable kept
\* once at its first position, and is empty when that plan is null.
C11_QueryListFresh ==
    (lastCall.op \in {"addFact", "deleteFact"} /\ lastCall.ret = "void") =>
        LET found == plan(facts, target, NoValue)
        IN  /\ found.returns
            /\ variablesToQuery =
                   IF found.null THEN <<>> ELSE FirstOccurrences(found.list, 1)

\* an addFact has changed the plan: the list held before the call is not the
\* list after it, and the plan after it is not null
C11_Witness ==
    /\ lastCall.op = "addFact"
    /\ lastCall.ret = "void"
    /\ ~plan(facts, target, NoValue).null
    /\ variablesToQuery # <<>>
    /\ variablesToQuery # prevVariablesToQuery
    /\ prevVariablesToQuery # <<>>

\* every reason of the rule resolves to a list, possibly empty
FullyResolves(fs, rule) ==
    \A k \in DOMAIN rule.reasons :
        LET toQuery == plan(fs, rule.reasons[k].variable, rule.reasons[k].value)
        IN  toQuery.returns /\ ~toQuery.null

\* C12: for a variable with no fact, not queryable, with at least one
\* candidate rule, a plan that returns is null only if every candidate rule
\* failed: when some candidate rule fully resolves, even with nothing left to
\* ask, the plan is a list.
C12_NullOnlyIfAllRulesFail ==
    \A variable \in VariableNames :
        \A value \in {NoValue} \cup ValuesOf(variable) :
            LET candidates == RulesFor(variable, value)
                found == plan(facts, variable, value)
            IN  (/\ ~HasFact(facts, variable)
                 /\ VariableOf(variable).type # queryable
                 /\ Len(candidates) > 0
                 /\ found.returns
                 /\ \E r \in DOMAIN candidates :
                        FullyResolves(facts, candidates[r]))
                => ~found.null

\* the variables a rule's reasons ask for
Needs(fs, rule) ==
    UNION {Range(plan(fs, rule.reasons[k].variable,
                      rule.reasons[k].value).list) :
              k \in DOMAIN rule.reasons}

\* C13: a candidate rule with a reason that resolves to null contributes
\* nothing: every variable of a plan made from rules is asked for by a reason
\* of a candidate rule that fully resolves.
C13_FailedRuleContributesNothing ==
    \A variable \in VariableNames :
        \A value \in {NoValue} \cup ValuesOf(variable) :
            LET candidates == RulesFor(variable, value)
                found == plan(facts, variable, value)
            IN  (/\ ~HasFact(facts, variable)
                 /\ VariableOf(variable).type # queryable
                 /\ Len(candidates) > 0
                 /\ found.returns)
                => \A asked \in Range(found.list) :
                       \E r \in DOMAIN candidates :
                           /\ FullyResolves(facts, candidates[r])
                           /\ asked \in Needs(facts, candidates[r])

\* a rule fails on its second reason, or on its first, while its other
\* reason asks for a variable; the plan is made of the other rule alone
C13_Witness ==
    /\ Configs[cfg] = FallbackConfig
    /\ \/ Holds(facts, "B", <<"B", "no">>) /\ ~HasFact(facts, "A")
       \/ Holds(facts, "A", <<"A", "no">>) /\ ~HasFact(facts, "B")
    /\ ~HasFact(facts, "D")
    /\ plan(facts, "T", NoValue) = Some(<<"D">>)
    /\ variablesToQuery = <<"D">>

----------------------------------------------------------------------------
(* Termination of the loops                                                *)

\* newFacts as the addFact call that led to the current state left it: the
\* fact it was called with and then every conclusion pushed, each element
\* stored once by the loop
WorkQueue ==
    Rederive(prevFacts, <<Fact(lastCall.variable, lastCall.value, entered)>>,
             1).newFacts

\* C14: within one addFact call each variable enters the work queue at most
\* once, the variable of the fact the call was given included, so the loop
\* stores at most one fact per variable and ends, on rules with a dependency
\* cycle too.
C14_OnceInWorkQueue ==
    lastCall.op = "addFact" =>
        /\ WorkQueue[1] = Fact(lastCall.variable, lastCall.value, entered)
        /\ \A i, j \in DOMAIN WorkQueue :
               WorkQueue[i].variable = WorkQueue[j].variable => i = j
        /\ Len(WorkQueue) <= Cardinality(VariableNames)

\* on the cyclic rules addFact(X=yes) queues Y=yes and T=yes; the rule that
\* concludes X=yes from Y=yes applies and is not queued
C14_Witness ==
    /\ Configs[cfg] = CyclicConfig
    /\ lastCall.op = "addFact"
    /\ WorkQueue = <<Fact("X", <<"X", "yes">>, entered),
                     restoreFact("Y", "yes"), restoreFact("T", "yes")>>
    /\ Holds(facts, "Y", <<"Y", "yes">>)

----------------------------------------------------------------------------
(* deleteFact one _deleteFact call at a time                                *)

\* a _deleteFact call that has been made and has not begun
PendingCall(variable, value, onlyDeducted) ==
    [variable |-> variable, value |-> value, onlyDeducted |-> onlyDeducted]

\* the recursive calls of lines 138-140, in the order of the rules
ResultCalls(using) ==
    [k \in 1..Len(using) |->
        PendingCall(using[k].result.variable, using[k].result.value, TRUE)]

\* system.deleteFact(variable) is entered: line 124 calls _deleteFact
BeginDeleteFact ==
    /\ lastCall.ret # "running"
    /\ \E variable \in VariableNames :
          /\ lastCall' = Call("deleteFact", variable, NoValue, "running")
          /\ retraction' =
                [pending |-> <<PendingCall(variable, NoValue, FALSE)>>,
                 calls |-> 0, continued |-> 0, removed |-> 0]
    /\ prevFacts' = facts
    /\ prevVariablesToQuery' = variablesToQuery
    /\ prevCall' = lastCall
    /\ UNCHANGED <<cfg, facts, variablesToQuery>>

\* a _deleteFact call that goes on to the rules and leaves the fact stored
StepDeleteFactNoSplice ==
    /\ lastCall.ret = "running"
    /\ retraction.pending # <<>>
    /\ LET call == Head(retraction.pending)
           i == FindToDelete(facts, call.variable, call.value)
       IN  IF i = 0 \/ (facts[i].type = entered /\ call.onlyDeducted)
           THEN /\ retraction' =
                      [retraction EXCEPT !.pending = Tail(@),
                                         !.calls = @ + 1]
                /\ UNCHANGED facts
           ELSE /\ UNCHANGED facts
                /\ retraction' =
                      [retraction EXCEPT
                          !.pending = ResultCalls(RulesUsing(facts[i]))
                                          \o Tail(@),
                          !.calls = @ + 1,
                          !.continued = @ + 1]
    /\ UNCHANGED <<cfg, variablesToQuery, lastCall, prevFacts,
                   prevVariablesToQuery, prevCall>>

\* the next _deleteFact call runs up to its loop: it returns at a guard
\* (lines 129-130), or removes the fact (lines 132-133) and makes the calls
\* of its loop, which run before the calls its caller has yet to make
StepDeleteFact ==
    /\ lastCall.ret = "running"
    /\ retraction.pending # <<>>
    /\ LET call == Head(retraction.pending)
           i == FindToDelete(facts, call.variable, call.value)
       IN  IF i = 0 \/ (facts[i].type = entered /\ call.onlyDeducted)
           THEN /\ retraction' =
                      [retraction EXCEPT !.pending = Tail(@),
                                         !.calls = @ + 1]
                /\ UNCHANGED facts
           ELSE /\ facts' = RemoveAt(facts, i)
                /\ retraction' =
                      [retraction EXCEPT
                          !.pending = ResultCalls(RulesUsing(facts[i]))
                                          \o Tail(@),
                          !.calls = @ + 1,
                          !.continued = @ + 1,
                          !.removed = @ + 1]
    /\ UNCHANGED <<cfg, variablesToQuery, lastCall, prevFacts,
                   prevVariablesToQuery, prevCall>>

\* every _deleteFact call has returned: line 125 refreshes the list and
\* deleteFact returns
EndDeleteFact ==
    /\ lastCall.ret = "running"
    /\ retraction.pending = <<>>
    /\ LET refresh == updateVariablesToQuery(facts, variablesToQuery)
       IN  /\ variablesToQuery' = refresh.variablesToQuery
           /\ lastCall' = [lastCall EXCEPT !.ret = EndOf(refresh)]
    /\ UNCHANGED <<cfg, facts, prevFacts, prevVariablesToQuery, prevCall,
                   retraction>>

\* answers are given as in Spec; a retraction is taken call by call
NextRetract ==
    AddFact \/ BeginDeleteFact \/ StepDeleteFact \/ EndDeleteFact

SpecRetract == Init /\ [][NextRetract]_vars

\* C15: _deleteFact runs to completion on every rule set, the cyclic ones
\* included: each call that goes on to the rules has removed a fact first, so
\* at most as many calls go on as there were facts, the number of calls made
\* is bounded by the rules and the facts there were, and when no call is
\* pending the store is the one deleteFact computes.
C15_RetractionEnds ==
    lastCall.op = "deleteFact" =>
        /\ retraction.continued = retraction.removed
        /\ retraction.removed = Len(prevFacts) - Len(facts)
        /\ retraction.continued <= Len(prevFacts)
        /\ retraction.calls <= 1 + Len(rules) * Len(prevFacts)
        /\ Len(retraction.pending) <= 1 + Len(rules) * Len(prevFacts)
        /\ retraction.pending = <<>> =>
               facts = deleteFact(prevFacts, lastCall.variable)

\* on the cyclic rules deleteFact(Y) has removed Y, X and T; the call made
\* for Y by the rule that concludes Y from X found nothing left to remove
C15_Witness ==
    /\ Configs[cfg] = CyclicConfig
    /\ lastCall = Call("deleteFact", "Y", NoValue, "RangeError")
    /\ prevFacts = <<Fact("Y", <<"Y", "yes">>, entered),
                     restoreFact("X", "yes"), restoreFact("T", "yes")>>
    /\ facts = <<>>
    /\ retraction = [pending |-> <<>>, calls |-> 4, continued |-> 3,
                     removed |-> 3]

\* C16 as stated: when the target has a rule with a reason about X, X a rule
\* with a reason about Y and Y a rule with a reason about X, and neither X
\* nor Y has a fact or is queryable, the plan for the target never returns.
C16_CycleNeverReturns ==
    (\E X \in ReasonVariables(target) :
        \E Y \in ReasonVariables(X) :
            /\ X \in ReasonVariables(Y)
            /\ ~HasFact(facts, X) /\ VariableOf(X).type # queryable
            /\ ~HasFact(facts, Y) /\ VariableOf(Y).type # queryable)
    => ~plan(facts, target, NoValue).returns

\* C16, amended: when the target has no fact and is not queryable, a rule
\* for the target has as its first reason a fact x of X, a rule for x has as
\* its first reason a fact y of Y, a rule for y has x as its first reason,
\* and neither X nor Y has a fact or is queryable, the plan for the target
\* never returns.
C16_CycleFromUnknownTarget ==
    (/\ ~HasFact(facts, target)
     /\ VariableOf(target).type # queryable
     /\ \E rt, rx, ry \in Range(rules) :
           /\ rt.result.variable = target
           /\ rx.result = rt.reasons[1]
           /\ ry.result = rx.reasons[1]
           /\ ry.reasons[1] = rx.result
           /\ ~HasFact(facts, rx.result.variable)
           /\ VariableOf(rx.result.variable).type # queryable
           /\ ~HasFact(facts, ry.result.variable)
           /\ VariableOf(ry.result.variable).type # queryable)
    => ~plan(facts, target, NoValue).returns

\* on the cyclic rules a refresh was called on the empty store and did not
\* return; the list is left empty
C16_Witness ==
    /\ Configs[cfg] = CyclicConfig
    /\ facts = <<>>
    /\ lastCall = Call("updateVariablesToQuery", "", NoValue, "RangeError")
    /\ variablesToQuery = <<>>

----------------------------------------------------------------------------
(* Properties of the stored facts after a call                             *)

\* C17: after addFact(f) with f entered the store holds exactly f for the
\* variable of f, with the value and the type given: no conclusion drawn and
\* no cascade run in the same call replaces or removes it.
C17_EnteredFactStored ==
    lastCall.op = "addFact" =>
        /\ \E i \in DOMAIN facts :
              facts[i] = Fact(lastCall.variable, lastCall.value, entered)
        /\ \A i \in DOMAIN facts :
              facts[i].variable = lastCall.variable =>
                  facts[i] = Fact(lastCall.variable, lastCall.value, entered)

\* on the cyclic rules X=yes was entered where X was derived from an entered
\* Y: the call removed the derived X and, by cascade, T; the rule concluding
\* X=yes from Y=yes holds and its conclusion did not replace the entered X
C17_Witness ==
    /\ Configs[cfg] = CyclicConfig
    /\ lastCall = Call("addFact", "X", <<"X", "yes">>, "void")
    /\ Holds(prevFacts, "X", <<"X", "yes">>)
    /\ FactOf(prevFacts, "X").type = undefinedType
    /\ FactOf(prevFacts, "Y").type = entered
    /\ FactOf(facts, "X") = Fact("X", <<"X", "yes">>, entered)
    /\ Holds(facts, "Y", <<"Y", "yes">>)

\* C18: in every store reached by addFact calls with entered facts and
\* deleteFact calls, each fact that is not entered is the result of a rule
\* all of whose reasons are stored.
C18_DerivedFactsJustified ==
    \A i \in DOMAIN facts :
        facts[i].type # entered =>
            \E r \in DOMAIN rules :
                /\ rules[r].result.variable = facts[i].variable
                /\ rules[r].result.value = facts[i].value
                /\ ReasonsHold(facts, rules[r])

\* C19: after deleteFact(v) every rule whose reasons are all stored has its
\* result stored.
C19_RetractionKeepsDerivable ==
    lastCall.op = "deleteFact" =>
        \A r \in DOMAIN rules :
            ReasonsHold(facts, rules[r]) =>
                Holds(facts, rules[r].result.variable, rules[r].result.value)

\* C20: after every addFact, deleteFact and updateVariablesToQuery() call
\* variablesToQuery has no variable twice and holds only variables with no
\* fact whose type is queryable or both.
C20_QueryListWellFormed ==
    lastCall.op \in {"addFact", "deleteFact", "updateVariablesToQuery"} =>
        /\ \A i, j \in DOMAIN variablesToQuery :
               variablesToQuery[i] = variablesToQuery[j] => i = j
        /\ \A i \in DOMAIN variablesToQuery :
               /\ variablesToQuery[i] \in VariableNames
               /\ ~HasFact(facts, variablesToQuery[i])
               /\ VariableOf(variablesToQuery[i]).type \in {queryable, both}

\* deleteFact(H) has brought H, of type both and with no rule for the value
\* needed, back into the list, after A, which was and stays the one variable
\* with no fact that can be asked
C20_Witness ==
    /\ Configs[cfg] = OverrideConfig
    /\ lastCall = Call("deleteFact", "H", NoValue, "void")
    /\ HasFact(prevFacts, "H")
    /\ prevVariablesToQuery = <<"A">>
    /\ variablesToQuery = <<"A", "H">>

============================================================================
